---- MODULE Spec2Model ----
(***************************************************************************)
(* Login state machine of the OTP panel bot.                               *)
(*                                                                         *)
(* The repository holds two programs for the same flow, and a run executes *)
(* one of them:                                                            *)
(*   account.py : pyrogram_login_flow_async / verify_otp_and_save_async /  *)
(*                verify_2fa_password_async over the dict login_states     *)
(*   bot.py     : callbacks / text_handler / save_account / cleanup over   *)
(*                the dicts user_state and temp_clients                    *)
(* A handler is a coroutine: it runs atomically from one await of a        *)
(* network operation to the next, and other handlers run in between.       *)
(*                                                                         *)
(* Two parts of account.py are modelled on their own, each under its own   *)
(* specification: the bridge from synchronous callers to coroutines        *)
(* (get_event_loop, AsyncManager: SpecBridge) and the teardown of a client *)
(* statement by statement (safe_disconnect: SpecTeardown).                 *)
(***************************************************************************)
EXTENDS Naturals, Sequences, FiniteSets, Bags, TLC

\* ---------------------------------------------------------------- bounds
NumUsers == 2
NumTasks == 2
MaxClients == 2
MaxAccounts == 2
NumCalls == 2
MaxLoops == 3
NumHandles == 2

Users == 1..NumUsers
Tasks == 1..NumTasks
ClientIds == 1..MaxClients
\* A text is a sequence of characters; only blanks matter here, so the other
\* characters of a phone number or of a password stay together.
Blank == " "
Phones == {<<"+15551234567">>, <<"+15557654321">>}
Secrets == {<<"hunter2">>}
NoClient == 0
NoPhone == <<>>
NoSecret == <<>>
NoSession == 0
Calls == 1..NumCalls
LoopIds == 1..MaxLoops
HandleIds == 1..NumHandles
NoLoop == 0
NoHandle == 0

VARIABLES
    impl,           \* which program runs: "account" (account.py) or "bot" (bot.py)
    login_states,   \* account.py: the dict passed as login_states, as a set of entries
    user_state,     \* bot.py:30  user_state, as a set of entries
    temp_clients,   \* bot.py:31  temp_clients, uid -> client (NoClient: key absent)
    clients,        \* the pyrogram Client objects created so far
    numClients,     \* how many Client objects were created
    accounts,       \* accounts_col: the bag of inserted documents
    task,           \* the handler invocations (coroutines) and their locals
    returned,       \* what the handler that ended in the last step returned, if one did
    phoned,         \* the users for whom a phone number was ever submitted
    global_event_loop,  \* account.py:22  _global_event_loop (NoLoop: None)
    loops,          \* the asyncio event loops
    numLoops,       \* how many event loops exist
    call,           \* the run_async invocations, one thread each
    handle,         \* Client objects as safe_disconnect sees them
    teardown        \* the last safe_disconnect call: what it found, did and left

loginVars == <<impl, login_states, user_state, temp_clients, clients, numClients,
               accounts, task, returned, phoned>>
bridgeVars == <<global_event_loop, loops, numLoops, call>>
handleVars == <<handle, teardown>>
vars == <<loginVars, bridgeVars, handleVars>>

\* ------------------------------------------------------- dict operations
\* mutant: the new entry is added beside the one the key held
PutKeepsOld(store, e) == store \cup {e}
\* d[k] = e : assignment replaces whatever the key held
Put(store, e) == {x \in store : x.uid # e.uid} \cup {e}
\* mutant: the pop clears the dict
PopEveryone(store, u) == {}
\* mutant: the pop is forgotten
PopNothing(store, u) == store
\* d.pop(k, None)
Pop(store, u) == {x \in store : x.uid # u}
\* k in d
Has(store, u) == \E x \in store : x.uid = u
\* d[k]
Get(store, u) == CHOOSE x \in store : x.uid = u

\* mutant: the assignment of the new step is forgotten
SetStepForgotten(e, step) == e
\* d[k]["step"] = step
SetStep(e, step) == [e EXCEPT !.step = step]

\* str(KeyError(key)) is the repr of the missing key: of a user id (an int) ...
KeyErrorUser(u) == ToString(u)
\* ... and of a field name (a str)
KeyErrorField(k) == "'" \o k \o "'"

\* ------------------------------------------------------- pyrogram Client
\* Client(...): a new object, not connected
NewClient == [conn |-> FALSE, disc |-> 0]
\* client.connect()
Connect(cl, c) == [cl EXCEPT ![c].conn = TRUE]
\* client.disconnect(): one more disconnect call on the object
Disconnect(cl, c) == [cl EXCEPT ![c].conn = FALSE, ![c].disc = @ + 1]
\* the connect-if-needed prologue of sign_in_with_otp / sign_in_with_password /
\* get_session_string
EnsureConnected(cl, c) == IF cl[c].conn THEN cl ELSE Connect(cl, c)
\* mutant: the teardown never happens
safe_disconnect_skipped(cl, c) == cl
\* safe_disconnect: disconnects only a client that reports is_connected
safe_disconnect(cl, c) == IF c # NoClient /\ cl[c].conn THEN Disconnect(cl, c) ELSE cl

\* ------------------------------------------------------------ documents
\* the document verify_otp_and_save_async inserts
OtpDoc(u, phone, session) ==
    [src |-> "account", by |-> u, phone |-> phone, session |-> session,
     has_2fa |-> FALSE, secret |-> NoSecret]
\* the document verify_2fa_password_async inserts
TwoFaDoc(u, phone, session, password) ==
    [src |-> "account", by |-> u, phone |-> phone, session |-> session,
     has_2fa |-> TRUE, secret |-> password]
\* the document save_account inserts: it has no field for the password
BotDoc(u, phone, session, two_step) ==
    [src |-> "bot", by |-> u, phone |-> phone, session |-> session,
     has_2fa |-> two_step, secret |-> NoSecret]
\* accounts_col.insert_one
insert_one(col, doc) == col (+) SetToBag({doc})

\* ---------------------------------------------------------------- tasks
IdleTask == [pc |-> "idle", kind |-> "none", uid |-> 0, client |-> NoClient,
             phone |-> NoPhone, secret |-> NoSecret, two |-> FALSE,
             live |-> FALSE, wrote |-> 0]

InFlight(t) == task[t].pc # "idle"
AllIdle == \A t \in Tasks : ~InFlight(t)
NumInFlight == Cardinality({t \in Tasks : InFlight(t)})
\* an arriving event gets the first free handler slot
Free(t) == ~InFlight(t) /\ \A x \in Tasks : x < t => InFlight(x)
\* every event may insert one document: keep the collection within MaxAccounts
Room == BagCardinality(accounts) + NumInFlight < MaxAccounts

NoReturn == [kind |-> "none"]
\* the outcome of a handler that ends before its first await
Answer(kind, u, ok, msg) ==
    [kind |-> kind, uid |-> u, client |-> NoClient, ok |-> ok, msg |-> msg, wrote |-> 0,
     secret |-> NoSecret]
\* the outcome of the suspended handler t when it ends
Outcome(t, ok, msg) ==
    [kind |-> task[t].kind, uid |-> task[t].uid, client |-> task[t].client,
     ok |-> ok, msg |-> msg, wrote |-> task[t].wrote, secret |-> task[t].secret]

\* no login attempt, no handler
InitLogin ==
    /\ login_states = {}
    /\ user_state = {}
    /\ temp_clients = [u \in Users |-> NoClient]
    /\ clients = [c \in ClientIds |-> NewClient]
    /\ numClients = 0
    /\ accounts = EmptyBag
    /\ task = [t \in Tasks |-> IdleTask]
    /\ returned = NoReturn
    /\ phoned = {}

\* an event loop that does not exist yet
NoLoopYet == [state |-> "unborn", kind |-> "none", done |-> FALSE]
IdleCall == [pc |-> "idle", in_loop |-> FALSE, loop |-> NoLoop, own |-> NoLoop,
             result |-> "none"]
\* no run_async call yet and _global_event_loop = None
InitBridge ==
    /\ global_event_loop = NoLoop
    /\ loops = [l \in LoopIds |-> NoLoopYet]
    /\ numLoops = 0
    /\ call = [k \in Calls |-> IdleCall]

\* Client(...): is_connected is None and there is no session object
NewHandle == [conn |-> FALSE, session |-> "none"]
NoTeardown == [kind |-> "none"]
InitHandles ==
    /\ handle = [h \in HandleIds |-> NewHandle]
    /\ teardown = NoTeardown

Init ==
    /\ impl \in {"account", "bot"}
    /\ InitLogin
    /\ InitBridge
    /\ InitHandles

\* =========================================================== account.py
\* The dict object a handler holds as `state` is the user's current entry
\* (live) until the entry is popped; after that the handler still reads the
\* popped object, which nobody updates any more.
Orphan(tk, u) ==
    [x \in Tasks |->
        IF tk[x].live /\ tk[x].uid = u /\ Has(login_states, u)
        THEN [tk[x] EXCEPT !.live = FALSE, !.phone = Get(login_states, u).phone]
        ELSE tk[x]]
\* state["phone"]
StatePhone(t) ==
    IF task[t].live THEN Get(login_states, task[t].uid).phone ELSE task[t].phone

\* The caller of pyrogram_login_flow_sync creates the user's entry first (the
\* flow answers "Session expired" without one): put(userId, attempt) of the
\* Login Session Store, for a user who has no entry.
LoginBegin(u) ==
    /\ impl = "account"
    /\ ~Has(login_states, u)
    /\ login_states' = Put(login_states,
           [uid |-> u, step |-> "phone", client |-> NoClient,
            phone |-> NoPhone, hash |-> 0])
    /\ returned' = NoReturn
    /\ UNCHANGED <<phoned, impl, user_state, temp_clients, clients, numClients, accounts, task>>
    /\ UNCHANGED <<bridgeVars, handleVars>>

\* pyrogram_login_flow_async, up to `await manager.send_code`
LoginFlowStart(t, u, p) ==
    /\ impl = "account"
    /\ Free(t)
    /\ Has(login_states, u) => numClients < MaxClients
    /\ IF ~Has(login_states, u)
       THEN /\ returned' = Answer("login", u, FALSE, "Session expired")
            /\ UNCHANGED <<numClients, task>>
       ELSE /\ numClients' = numClients + 1
            /\ task' = [task EXCEPT ![t] =
                   [IdleTask EXCEPT !.pc = "send_code", !.kind = "login", !.uid = u,
                                    !.client = numClients + 1, !.phone = p]]
            /\ returned' = NoReturn
    /\ phoned' = phoned \cup {u}
    /\ UNCHANGED <<impl, login_states, user_state, temp_clients, clients, accounts>>
    /\ UNCHANGED <<bridgeVars, handleVars>>

\* ok; FloodWait or another error raised by client.send_code (connected);
\* an error raised by client.connect() (not connected)
SendOutcomes == {"ok", "flood", "rejected", "unreachable"}

\* PyrogramClientManager.send_code and the rest of pyrogram_login_flow_async
LoginFlowSend(t) ==
    /\ task[t].pc = "send_code"
    /\ \E o \in SendOutcomes :
        LET u == task[t].uid
            c == task[t].client
            pre == safe_disconnect(clients, c)
        IN  CASE o = "ok" ->
                  /\ clients' = Connect(pre, c)
                  /\ IF Has(login_states, u)
                     THEN /\ login_states' = Put(login_states,
                                 [Get(login_states, u) EXCEPT
                                     !.client = c, !.phone = task[t].phone,
                                     !.hash = c, !.step = "waiting_otp"])
                          /\ returned' = Outcome(t, TRUE, "OTP sent successfully")
                     ELSE /\ UNCHANGED login_states
                          /\ returned' = Outcome(t, FALSE, KeyErrorUser(u))
              [] o = "flood" ->
                  /\ clients' = safe_disconnect(Connect(pre, c), c)
                  /\ returned' = Outcome(t, FALSE, "FloodWait: Please wait 30 seconds")
                  /\ UNCHANGED login_states
              [] o = "rejected" ->
                  /\ clients' = safe_disconnect(Connect(pre, c), c)
                  /\ returned' = Outcome(t, FALSE, "PhoneNumberInvalid")
                  /\ UNCHANGED login_states
              [] o = "unreachable" ->
                  /\ clients' = safe_disconnect(pre, c)
                  /\ returned' = Outcome(t, FALSE, "ConnectionError")
                  /\ UNCHANGED login_states
    /\ task' = [task EXCEPT ![t] = IdleTask]
    /\ UNCHANGED <<phoned, impl, user_state, temp_clients, numClients, accounts>>
    /\ UNCHANGED <<bridgeVars, handleVars>>

\* verify_otp_and_save_async, up to `await manager.sign_in_with_otp`
VerifyOtpStart(t, u) ==
    /\ impl = "account"
    /\ Free(t)
    /\ Room
    /\ IF ~Has(login_states, u)
       THEN /\ returned' = Answer("otp", u, FALSE, "Session expired")
            /\ UNCHANGED <<login_states, task>>
       ELSE IF Get(login_states, u).client = NoClient
       THEN \* state["client"] raises KeyError: the except clause pops the entry
            /\ login_states' = Pop(login_states, u)
            /\ task' = Orphan(task, u)
            /\ returned' = Answer("otp", u, FALSE, KeyErrorField("client"))
       ELSE /\ task' = [task EXCEPT ![t] =
                   [IdleTask EXCEPT !.pc = "sign_in", !.kind = "otp", !.uid = u,
                                    !.client = Get(login_states, u).client,
                                    !.live = TRUE]]
            /\ returned' = NoReturn
            /\ UNCHANGED login_states
    /\ UNCHANGED <<phoned, impl, user_state, temp_clients, clients, numClients, accounts>>
    /\ UNCHANGED <<bridgeVars, handleVars>>

\* ok; SessionPasswordNeeded; another error raised by client.sign_in (connected);
\* an error raised by the client.connect() before it (still not connected)
SignInOutcomes == {"ok", "password_required", "error", "unreachable"}

\* PyrogramClientManager.sign_in_with_otp and what follows it, up to the next await
VerifyOtpSignIn(t) ==
    /\ task[t].pc = "sign_in"
    /\ \E o \in SignInOutcomes :
        LET u == task[t].uid
            c == task[t].client
        IN  CASE o = "password_required" ->
                  /\ clients' = EnsureConnected(clients, c)
                  /\ task' = [task EXCEPT ![t] = IdleTask]
                  /\ IF Has(login_states, u)
                     THEN /\ login_states' = Put(login_states,
                                 SetStep(Get(login_states, u), "waiting_password"))
                          /\ returned' = Outcome(t, FALSE, "password_required")
                     ELSE /\ UNCHANGED login_states
                          /\ returned' = Outcome(t, FALSE, KeyErrorUser(u))
              [] o \in {"error", "unreachable"} ->
                  /\ clients' = IF o = "error" THEN EnsureConnected(clients, c) ELSE clients
                  /\ IF o = "error" \/ clients[c].conn
                     THEN \* safe_disconnect saw is_connected and awaits the teardown
                          /\ task' = [task EXCEPT ![t].pc = "fail_disconnect"]
                          /\ returned' = NoReturn
                          /\ UNCHANGED login_states
                     ELSE /\ login_states' = Pop(login_states, u)
                          /\ task' = [Orphan(task, u) EXCEPT ![t] = IdleTask]
                          /\ returned' = Outcome(t, FALSE, "ConnectionError")
              [] o = "ok" ->
                  /\ clients' = EnsureConnected(clients, c)
                  /\ task' = [task EXCEPT ![t].pc = "export"]
                  /\ returned' = NoReturn
                  /\ UNCHANGED login_states
    /\ UNCHANGED <<phoned, impl, user_state, temp_clients, numClients, accounts>>
    /\ UNCHANGED <<bridgeVars, handleVars>>

\* verify_otp_and_save_async after a failed sign-in: the disconnect, then the pop
VerifyOtpFailDisconnect(t) ==
    /\ task[t].pc = "fail_disconnect"
    /\ clients' = Disconnect(clients, task[t].client)
    /\ login_states' = Pop(login_states, task[t].uid)
    /\ task' = [Orphan(task, task[t].uid) EXCEPT ![t] = IdleTask]
    /\ returned' = Outcome(t, FALSE, "PhoneCodeInvalid")
    /\ UNCHANGED <<phoned, impl, user_state, temp_clients, numClients, accounts>>
    /\ UNCHANGED <<bridgeVars, handleVars>>

\* verify_2fa_password_async, up to `await manager.sign_in_with_password`
Verify2faStart(t, u, s) ==
    /\ impl = "account"
    /\ Free(t)
    /\ Room
    /\ IF ~Has(login_states, u)
       THEN \* login_states[user_id] raises KeyError; pop(user_id, None) finds nothing
            /\ returned' = Answer("2fa", u, FALSE, KeyErrorUser(u))
            /\ UNCHANGED <<login_states, task>>
       ELSE IF Get(login_states, u).client = NoClient
       THEN /\ login_states' = Pop(login_states, u)
            /\ task' = Orphan(task, u)
            /\ returned' = Answer("2fa", u, FALSE, KeyErrorField("client"))
       ELSE /\ task' = [task EXCEPT ![t] =
                   [IdleTask EXCEPT !.pc = "check_password", !.kind = "2fa", !.uid = u,
                                    !.client = Get(login_states, u).client,
                                    !.secret = s, !.two = TRUE, !.live = TRUE]]
            /\ returned' = NoReturn
            /\ UNCHANGED login_states
    /\ UNCHANGED <<phoned, impl, user_state, temp_clients, clients, numClients, accounts>>
    /\ UNCHANGED <<bridgeVars, handleVars>>

\* ok; an error raised by client.check_password (connected); an error raised by
\* the client.connect() before it (still not connected)
PasswordOutcomes == {"ok", "error", "unreachable"}

\* PyrogramClientManager.sign_in_with_password and the `if not success` after it
Verify2faSignIn(t) ==
    /\ task[t].pc = "check_password"
    /\ \E o \in PasswordOutcomes :
        IF o = "ok"
        THEN /\ clients' = EnsureConnected(clients, task[t].client)
             /\ task' = [task EXCEPT ![t].pc = "export"]
             /\ returned' = NoReturn
        ELSE /\ clients' = IF o = "error" THEN EnsureConnected(clients, task[t].client)
                                           ELSE clients
             /\ task' = [task EXCEPT ![t] = IdleTask]
             /\ returned' = Outcome(t, FALSE,
                    IF o = "error" \/ clients[task[t].client].conn
                    THEN "PasswordHashInvalid" ELSE "ConnectionError")
    /\ UNCHANGED <<phoned, impl, login_states, user_state, temp_clients, numClients, accounts>>
    /\ UNCHANGED <<bridgeVars, handleVars>>

\* a credential exported and inserted; get_me or the export fails (connected);
\* the client.connect() before them fails (still not connected); insert_one raises
FinalizeOutcomes == {"ok", "no_session", "unreachable", "write_fails"}

\* mutant: the result of the export is not tested
SessionAlwaysUsable(session) == TRUE
\* `if not session_string`: None and "" are both refused
SessionUsable(session) == session # NoSession

\* get_session_string, insert_one and the is_connected test of the safe_disconnect
\* that follows: the finalization that verify_otp_and_save_async and
\* verify_2fa_password_async share
Finalize(t) ==
    /\ task[t].pc = "export"
    /\ \E o \in FinalizeOutcomes :
        LET u == task[t].uid
            c == task[t].client
            session == IF o \in {"no_session", "unreachable"} THEN NoSession ELSE c
        IN  /\ clients' = IF o = "unreachable" THEN clients ELSE EnsureConnected(clients, c)
            /\ IF ~SessionUsable(session)
               THEN /\ task' = [task EXCEPT ![t] = IdleTask]
                    /\ returned' = Outcome(t, FALSE, "Failed to get session string")
                    /\ UNCHANGED <<login_states, accounts>>
               ELSE IF o = "write_fails"
               THEN \* insert_one raises: the except clause pops the entry
                    /\ login_states' = Pop(login_states, u)
                    /\ task' = [Orphan(task, u) EXCEPT ![t] = IdleTask]
                    /\ returned' = Outcome(t, FALSE, "WriteError")
                    /\ UNCHANGED accounts
               ELSE /\ accounts' = insert_one(accounts,
                           IF task[t].two
                           THEN TwoFaDoc(u, StatePhone(t), session, task[t].secret)
                           ELSE OtpDoc(u, StatePhone(t), session))
                    /\ task' = [task EXCEPT ![t].pc = "final_disconnect",
                                            ![t].wrote = @ + 1]
                    /\ returned' = NoReturn
                    /\ UNCHANGED login_states
    /\ UNCHANGED <<phoned, impl, user_state, temp_clients, numClients>>
    /\ UNCHANGED <<bridgeVars, handleVars>>

\* the safe_disconnect and the pop that end a successful finalization
FinalDisconnect(t) ==
    /\ task[t].pc = "final_disconnect"
    /\ clients' = Disconnect(clients, task[t].client)
    /\ login_states' = Pop(login_states, task[t].uid)
    /\ task' = [Orphan(task, task[t].uid) EXCEPT ![t] = IdleTask]
    /\ returned' = Outcome(t, TRUE, "Account added successfully")
    /\ UNCHANGED <<phoned, impl, user_state, temp_clients, numClients, accounts>>
    /\ UNCHANGED <<bridgeVars, handleVars>>


\* =============================================================== bot.py
RECURSIVE LStrip(_)
LStrip(text) ==
    IF text # <<>> /\ Head(text) = Blank THEN LStrip(Tail(text)) ELSE text
RECURSIVE RStrip(_)
RStrip(text) ==
    IF text # <<>> /\ text[Len(text)] = Blank
    THEN RStrip(SubSeq(text, 1, Len(text) - 1)) ELSE text
\* m.text.strip()
Strip(text) == RStrip(LStrip(text))
\* what a user may type for a phone number or a password
PhoneTexts == Phones \cup {<<Blank>> \o p \o <<Blank>> : p \in Phones}
SecretTexts == Secrets \cup {s \o <<Blank>> : s \in Secrets}

\* callbacks, q.data == "add"
BotAdd(u) ==
    /\ impl = "bot"
    /\ user_state' = Put(user_state,
           [uid |-> u, step |-> "phone", phone |-> NoPhone, hash |-> 0])
    /\ returned' = NoReturn
    /\ UNCHANGED <<phoned, impl, login_states, temp_clients, clients, numClients, accounts, task>>
    /\ UNCHANGED <<bridgeVars, handleVars>>

\* text_handler: `if uid not in user_state: return`
BotTextIgnored(t, u) ==
    /\ impl = "bot"
    /\ Free(t)
    /\ ~Has(user_state, u)
    /\ returned' = Answer("bot", u, FALSE, "")
    /\ UNCHANGED <<phoned, impl, login_states, user_state, temp_clients, clients, numClients,
                   accounts, task>>
    /\ UNCHANGED <<bridgeVars, handleVars>>

\* text_handler, PHONE STEP up to `await client.connect()`
BotPhoneStart(t, u, text) ==
    /\ impl = "bot"
    /\ Free(t)
    /\ Has(user_state, u) /\ Get(user_state, u).step = "phone"
    /\ numClients < MaxClients
    /\ numClients' = numClients + 1
    /\ task' = [task EXCEPT ![t] =
           [IdleTask EXCEPT !.pc = "bot_connect", !.kind = "bot_phone", !.uid = u,
                            !.client = numClients + 1, !.phone = Strip(text)]]
    /\ returned' = NoReturn
    /\ phoned' = phoned \cup {u}
    /\ UNCHANGED <<impl, login_states, user_state, temp_clients, clients, accounts>>
    /\ UNCHANGED <<bridgeVars, handleVars>>

ConnectOutcomes == {"ok", "unreachable"}

\* text_handler, PHONE STEP: client.connect()
BotConnect(t) ==
    /\ task[t].pc = "bot_connect"
    /\ \E o \in ConnectOutcomes :
        IF o = "ok"
        THEN /\ clients' = Connect(clients, task[t].client)
             /\ task' = [task EXCEPT ![t].pc = "bot_send_code"]
             /\ returned' = NoReturn
        ELSE /\ task' = [task EXCEPT ![t] = IdleTask]
             /\ returned' = Outcome(t, FALSE, "raised")
             /\ UNCHANGED clients
    /\ UNCHANGED <<phoned, impl, login_states, user_state, temp_clients, numClients, accounts>>
    /\ UNCHANGED <<bridgeVars, handleVars>>

\* text_handler, PHONE STEP: client.send_code and what follows it
BotSendCode(t) ==
    /\ task[t].pc = "bot_send_code"
    /\ \E o \in SendOutcomes :
        LET u == task[t].uid
            c == task[t].client
        IN  IF o = "ok"
            THEN /\ temp_clients' = [temp_clients EXCEPT ![u] = c]
                 /\ user_state' = Put(user_state,
                        [uid |-> u, step |-> "otp", phone |-> task[t].phone, hash |-> c])
                 /\ returned' = Outcome(t, TRUE, "OTP Sent Successfully")
                 /\ UNCHANGED clients
            ELSE /\ clients' = Disconnect(clients, c)
                 /\ returned' = Outcome(t, FALSE,
                        IF o = "flood" THEN "Flood wait: wait 30 seconds"
                                       ELSE "Failed to send OTP")
                 /\ UNCHANGED <<user_state, temp_clients>>
    /\ task' = [task EXCEPT ![t] = IdleTask]
    /\ UNCHANGED <<phoned, impl, login_states, numClients, accounts>>
    /\ UNCHANGED <<bridgeVars, handleVars>>

\* text_handler, OTP STEP up to `await client.sign_in`
BotOtpStart(t, u) ==
    /\ impl = "bot"
    /\ Free(t)
    /\ Room
    /\ Has(user_state, u) /\ Get(user_state, u).step = "otp"
    /\ IF temp_clients[u] = NoClient
       THEN /\ returned' = Answer("bot_otp", u, FALSE, "raised")
            /\ UNCHANGED task
       ELSE /\ task' = [task EXCEPT ![t] =
                   [IdleTask EXCEPT !.pc = "bot_sign_in", !.kind = "bot_otp", !.uid = u,
                                    !.client = temp_clients[u],
                                    !.phone = Get(user_state, u).phone]]
            /\ returned' = NoReturn
    /\ UNCHANGED <<phoned, impl, login_states, user_state, temp_clients, clients, numClients,
                   accounts>>
    /\ UNCHANGED <<bridgeVars, handleVars>>

\* text_handler, OTP STEP: client.sign_in and its except clause
BotSignIn(t) ==
    /\ task[t].pc = "bot_sign_in"
    /\ \E o \in SignInOutcomes :
        LET u == task[t].uid
        IN  IF o = "ok" /\ clients[task[t].client].conn
            THEN /\ task' = [task EXCEPT ![t].pc = "bot_export"]
                 /\ returned' = NoReturn
                 /\ UNCHANGED user_state
            ELSE IF o = "password_required" /\ clients[task[t].client].conn
                    /\ Has(user_state, u)
            THEN /\ user_state' = Put(user_state,
                        SetStep(Get(user_state, u), "password"))
                 /\ task' = [task EXCEPT ![t] = IdleTask]
                 /\ returned' = Outcome(t, FALSE, "Send 2-step password")
            ELSE \* any other exception leaves text_handler: nothing is cleaned up
                 /\ task' = [task EXCEPT ![t] = IdleTask]
                 /\ returned' = Outcome(t, FALSE,
                        IF o = "error" /\ clients[task[t].client].conn
                        THEN "PhoneCodeInvalid" ELSE "raised")
                 /\ UNCHANGED user_state
    /\ UNCHANGED <<phoned, impl, login_states, temp_clients, clients, numClients, accounts>>
    /\ UNCHANGED <<bridgeVars, handleVars>>

\* text_handler, PASSWORD STEP up to `await client.check_password`
BotPasswordStart(t, u, text) ==
    /\ impl = "bot"
    /\ Free(t)
    /\ Room
    /\ Has(user_state, u) /\ Get(user_state, u).step = "password"
    /\ IF temp_clients[u] = NoClient
       THEN /\ returned' = Answer("bot_password", u, FALSE, "raised")
            /\ UNCHANGED task
       ELSE /\ task' = [task EXCEPT ![t] =
                   [IdleTask EXCEPT !.pc = "bot_check_password", !.kind = "bot_password",
                                    !.uid = u, !.client = temp_clients[u],
                                    !.phone = Get(user_state, u).phone,
                                    !.secret = Strip(text), !.two = TRUE]]
            /\ returned' = NoReturn
    /\ UNCHANGED <<phoned, impl, login_states, user_state, temp_clients, clients, numClients,
                   accounts>>
    /\ UNCHANGED <<bridgeVars, handleVars>>

\* text_handler, PASSWORD STEP: client.check_password
BotCheckPassword(t) ==
    /\ task[t].pc = "bot_check_password"
    /\ \E o \in PasswordOutcomes :
        IF o = "ok" /\ clients[task[t].client].conn
        THEN /\ task' = [task EXCEPT ![t].pc = "bot_export"]
             /\ returned' = NoReturn
        ELSE \* the exception leaves text_handler: nothing is cleaned up
             /\ task' = [task EXCEPT ![t] = IdleTask]
             /\ returned' = Outcome(t, FALSE,
                    IF o = "error" /\ clients[task[t].client].conn
                    THEN "PasswordHashInvalid" ELSE "raised")
    /\ UNCHANGED <<phoned, impl, login_states, user_state, temp_clients, clients, numClients,
                   accounts>>
    /\ UNCHANGED <<bridgeVars, handleVars>>

SaveOutcomes == {"ok", "export_raises", "write_fails"}

\* save_account: export_session_string and insert_one
BotSaveAccount(t) ==
    /\ task[t].pc = "bot_export"
    /\ \E o \in SaveOutcomes :
        IF o = "ok" /\ clients[task[t].client].conn
        THEN /\ accounts' = insert_one(accounts,
                    BotDoc(task[t].uid, task[t].phone, task[t].client, task[t].two))
             /\ task' = [task EXCEPT ![t].pc = "bot_disconnect", ![t].wrote = @ + 1]
             /\ returned' = NoReturn
        ELSE /\ task' = [task EXCEPT ![t] = IdleTask]
             /\ returned' = Outcome(t, FALSE,
                    IF o = "write_fails" /\ clients[task[t].client].conn
                    THEN "raised by insert_one"
                    ELSE "raised by export_session_string")
             /\ UNCHANGED accounts
    /\ UNCHANGED <<phoned, impl, login_states, user_state, temp_clients, clients, numClients>>
    /\ UNCHANGED <<bridgeVars, handleVars>>

\* save_account: client.disconnect(), which raises on a client already disconnected
BotDisconnect(t) ==
    /\ task[t].pc = "bot_disconnect"
    /\ clients' = Disconnect(clients, task[t].client)
    /\ IF clients[task[t].client].conn
       THEN /\ task' = [task EXCEPT ![t].pc = "bot_cleanup"]
            /\ returned' = NoReturn
       ELSE /\ task' = [task EXCEPT ![t] = IdleTask]
            /\ returned' = Outcome(t, FALSE, "raised")
    /\ UNCHANGED <<phoned, impl, login_states, user_state, temp_clients, numClients, accounts>>
    /\ UNCHANGED <<bridgeVars, handleVars>>

\* cleanup(uid), after the reply that follows save_account
BotCleanup(t) ==
    /\ task[t].pc = "bot_cleanup"
    /\ user_state' = Pop(user_state, task[t].uid)
    /\ temp_clients' = [temp_clients EXCEPT ![task[t].uid] = NoClient]
    /\ task' = [task EXCEPT ![t] = IdleTask]
    /\ returned' = Outcome(t, TRUE, "Account added successfully")
    /\ UNCHANGED <<phoned, impl, login_states, clients, numClients, accounts>>
    /\ UNCHANGED <<bridgeVars, handleVars>>

\* ============================================== account.py: AsyncManager
\* Every run_async call runs on a thread of its own. A thread that is itself
\* inside a running event loop (in_loop) calls from a coroutine or a callback;
\* one loop has one thread, so at most one call at a time is of that kind.
AmbientLoop == 1
\* asyncio.new_event_loop()
NewLoop(kind, state) == [state |-> state, kind |-> kind, done |-> FALSE]
\* loop.is_running()
IsRunningLoop(l) == loops[l].state = "running"
\* the call ends: run_async returns its result or raises
EndCall(k, result) == [call EXCEPT ![k].pc = "idle", ![k].result = result]

\* run_async is entered: get_event_loop() begins
RunAsync(k, in_loop) ==
    /\ call[k].pc = "idle"
    /\ in_loop => /\ \A x \in Calls : call[x].pc = "idle" \/ ~call[x].in_loop
                  /\ numLoops = 0 \/ loops[AmbientLoop].kind = "ambient"
    /\ IF in_loop /\ numLoops = 0
       THEN \* the loop the caller runs in exists before the first call
            /\ loops' = [loops EXCEPT ![AmbientLoop] = NewLoop("ambient", "running")]
            /\ numLoops' = 1
       ELSE UNCHANGED <<loops, numLoops>>
    /\ call' = [call EXCEPT ![k] = [IdleCall EXCEPT !.pc = "get_loop",
                                                     !.in_loop = in_loop]]
    /\ UNCHANGED <<global_event_loop, loginVars, handleVars>>

\* get_event_loop: `if _global_event_loop is None`
GetLoopTest(k) ==
    /\ call[k].pc = "get_loop"
    /\ call' = [call EXCEPT ![k].pc =
           IF global_event_loop = NoLoop THEN "make_loop" ELSE "return_loop"]
    /\ UNCHANGED <<global_event_loop, loops, numLoops, loginVars, handleVars>>

\* get_event_loop: get_running_loop(), or new_event_loop() when that raises;
\* the assignment to _global_event_loop
GetLoopMake(k) ==
    /\ call[k].pc = "make_loop"
    /\ IF call[k].in_loop
       THEN /\ global_event_loop' = AmbientLoop
            /\ UNCHANGED <<loops, numLoops>>
       ELSE /\ numLoops < MaxLoops
            /\ numLoops' = numLoops + 1
            /\ loops' = [loops EXCEPT ![numLoops + 1] = NewLoop("global", "idle")]
            /\ global_event_loop' = numLoops + 1
    /\ call' = [call EXCEPT ![k].pc = "return_loop"]
    /\ UNCHANGED <<loginVars, handleVars>>

\* get_event_loop: `return _global_event_loop`
GetLoopReturn(k) ==
    /\ call[k].pc = "return_loop"
    /\ call' = [call EXCEPT ![k].pc = "is_running", ![k].loop = global_event_loop]
    /\ UNCHANGED <<global_event_loop, loops, numLoops, loginVars, handleVars>>

\* run_async: `if loop.is_running()`
IsRunning(k) ==
    /\ call[k].pc = "is_running"
    /\ call' = [call EXCEPT ![k].pc =
           IF IsRunningLoop(call[k].loop) THEN "run_in_thread" ELSE "run_until_complete"]
    /\ UNCHANGED <<global_event_loop, loops, numLoops, loginVars, handleVars>>

\* run_async: loop.run_until_complete(coro) begins. It raises RuntimeError on a
\* loop that is running and in a thread that runs another loop; run_async logs
\* the error and raises it again.
RunUntilComplete(k) ==
    /\ call[k].pc = "run_until_complete"
    /\ IF IsRunningLoop(call[k].loop) \/ call[k].in_loop
       THEN /\ call' = EndCall(k, "raised RuntimeError")
            /\ UNCHANGED loops
       ELSE /\ loops' = [loops EXCEPT ![call[k].loop].state = "running"]
            /\ call' = [call EXCEPT ![k].pc = "driving"]
    /\ UNCHANGED <<global_event_loop, numLoops, loginVars, handleVars>>

\* the coroutine ends: it returns or raises
CoroOutcomes == {"returned", "raised"}

\* run_async: loop.run_until_complete(coro) ends
RunCompleted(k) ==
    /\ call[k].pc = "driving"
    /\ \E o \in CoroOutcomes :
          call' = EndCall(k, o)
    /\ loops' = [loops EXCEPT ![call[k].loop].state = "idle"]
    /\ UNCHANGED <<global_event_loop, numLoops, loginVars, handleVars>>

\* _run_in_thread: the thread starts; new_event_loop, set_event_loop and the
\* beginning of new_loop.run_until_complete(coro)
RunInThread(k) ==
    /\ call[k].pc = "run_in_thread"
    /\ numLoops < MaxLoops
    /\ numLoops' = numLoops + 1
    /\ loops' = [loops EXCEPT ![numLoops + 1] = NewLoop("scoped", "running")]
    /\ call' = [call EXCEPT ![k].pc = "thread_driving", ![k].own = numLoops + 1]
    /\ UNCHANGED <<global_event_loop, loginVars, handleVars>>

\* _run_in_thread: new_loop.close() follows run_until_complete inside the try,
\* so an exception of the coroutine skips it
CloseAfter(outcome) == IF outcome = "returned" THEN "closed" ELSE "idle"

\* _run_in_thread: the coroutine ends, the thread ends, join returns and
\* _run_in_thread returns the result or raises the exception
ThreadCompleted(k) ==
    /\ call[k].pc = "thread_driving"
    /\ \E o \in CoroOutcomes :
          /\ loops' = [loops EXCEPT ![call[k].own].state = CloseAfter(o),
                                    ![call[k].own].done = TRUE]
          /\ call' = EndCall(k, o)
    /\ UNCHANGED <<global_event_loop, numLoops, loginVars, handleVars>>

\* ================================ account.py: safe_disconnect, in detail
\* The run of a statement: the handle it leaves, the calls made on the client
\* so far, and whether an exception is propagating.
Ran(h, ops, exc) == [h |-> h, ops |-> ops, exc |-> exc]
\* mutant: no try around the statement
TryMissing(r) == r
\* try: ... except: pass
TryExceptPass(r) == [r EXCEPT !.exc = FALSE]
\* await client.session.stop()
SessionStop(r, fails) ==
    IF r.exc THEN r
    ELSE Ran(IF fails THEN r.h ELSE [r.h EXCEPT !.session = "stopped"],
             Append(r.ops, "session.stop"), fails)
\* await client.disconnect()
ClientDisconnect(r, fails) ==
    IF r.exc THEN r
    ELSE Ran(IF fails THEN r.h ELSE [r.h EXCEPT !.conn = FALSE, !.session = "stopped"],
             Append(r.ops, "client.disconnect"), fails)
\* client.session is set and truthy
HasSession(h) == h.session # "none"
\* PyrogramClientManager.safe_disconnect(client); present: client is not None
SafeDisconnectRun(present, h, stop_fails, disconnect_fails) ==
    TryExceptPass(
        IF present /\ h.conn
        THEN ClientDisconnect(
                 IF HasSession(h)
                 THEN TryExceptPass(SessionStop(Ran(h, <<>>, FALSE), stop_fails))
                 ELSE Ran(h, <<>>, FALSE),
                 disconnect_fails)
        ELSE Ran(h, <<>>, FALSE))

\* client.connect() on a client that is not connected
HandleConnect(c) ==
    /\ ~handle[c].conn
    /\ handle' = [handle EXCEPT ![c] = [conn |-> TRUE, session |-> "started"]]
    /\ teardown' = NoTeardown
    /\ UNCHANGED <<loginVars, bridgeVars>>

\* a call of safe_disconnect, on a client or on None
SafeDisconnectCall(c, stop_fails, disconnect_fails) ==
    LET before == IF c = NoHandle THEN NewHandle ELSE handle[c]
        r == SafeDisconnectRun(c # NoHandle, before, stop_fails, disconnect_fails)
    IN  /\ handle' = IF c = NoHandle THEN handle ELSE [handle EXCEPT ![c] = r.h]
        /\ teardown' = [kind |-> "safe_disconnect", client |-> c, before |-> before,
                        stop_fails |-> stop_fails,
                        disconnect_fails |-> disconnect_fails,
                        ops |-> r.ops, raised |-> r.exc, after |-> r.h]
        /\ UNCHANGED <<loginVars, bridgeVars>>

\* ======================================================= specifications
\* an event arrives: a handler is entered
Arrive ==
    \/ \E u \in Users : LoginBegin(u)
    \/ \E t \in Tasks, u \in Users, p \in Phones : LoginFlowStart(t, u, p)
    \/ \E t \in Tasks, u \in Users : VerifyOtpStart(t, u)
    \/ \E t \in Tasks, u \in Users, s \in Secrets : Verify2faStart(t, u, s)
    \/ \E u \in Users : BotAdd(u)
    \/ \E t \in Tasks, u \in Users : BotTextIgnored(t, u)
    \/ \E t \in Tasks, u \in Users, x \in PhoneTexts : BotPhoneStart(t, u, x)
    \/ \E t \in Tasks, u \in Users : BotOtpStart(t, u)
    \/ \E t \in Tasks, u \in Users, x \in SecretTexts : BotPasswordStart(t, u, x)

\* a suspended handler resumes
Resume ==
    \E t \in Tasks :
        \/ LoginFlowSend(t)
        \/ VerifyOtpSignIn(t)
        \/ VerifyOtpFailDisconnect(t)
        \/ Verify2faSignIn(t)
        \/ Finalize(t)
        \/ FinalDisconnect(t)
        \/ BotConnect(t)
        \/ BotSendCode(t)
        \/ BotSignIn(t)
        \/ BotCheckPassword(t)
        \/ BotSaveAccount(t)
        \/ BotDisconnect(t)
        \/ BotCleanup(t)

\* Nothing in either file orders the handlers of one user: events arrive while
\* other handlers are suspended.
Next == Arrive \/ Resume
Spec == Init /\ [][Next]_vars

\* account.py is loaded and nothing has run yet
InitAccount ==
    /\ impl = "account"
    /\ InitLogin
    /\ InitBridge
    /\ InitHandles

\* The Concurrency Bridge alone: run_async calls on concurrent threads, whatever
\* coroutine each drives.
NextBridge ==
    \E k \in Calls :
        \/ \E in_loop \in BOOLEAN : RunAsync(k, in_loop)
        \/ GetLoopTest(k)
        \/ GetLoopMake(k)
        \/ GetLoopReturn(k)
        \/ IsRunning(k)
        \/ RunUntilComplete(k)
        \/ RunCompleted(k)
        \/ RunInThread(k)
        \/ ThreadCompleted(k)
SpecBridge == InitAccount /\ [][NextBridge]_vars

\* safe_disconnect alone: clients are connected and torn down, in any order and
\* any number of times, each teardown with every outcome of the two calls it
\* makes on the client.
NextTeardown ==
    \/ \E c \in HandleIds : HandleConnect(c)
    \/ \E c \in HandleIds \cup {NoHandle}, stop_fails, disconnect_fails \in BOOLEAN :
          SafeDisconnectCall(c, stop_fails, disconnect_fails)
SpecTeardown == InitAccount /\ [][NextTeardown]_vars

\* One event at a time: the next one arrives when no handler is suspended.
NextSeq == (AllIdle /\ Arrive) \/ Resume
SpecSeq == Init /\ [][NextSeq]_vars


\* ================================================================ claims
\* the user has a LoginAttempt in the store of the program that runs
HasEntry(u) == Has(login_states, u) \/ Has(user_state, u)
\* client c is the networkSession of a stored attempt that waits for a code or a password
AwaitedSession(c) ==
    \/ \E e \in login_states :
          e.client = c /\ e.step \in {"waiting_otp", "waiting_password"}
    \/ \E e \in user_state :
          temp_clients[e.uid] = c /\ e.step \in {"otp", "password"}
\* client c is the networkSession of some stored attempt
StoredSession(c) ==
    \/ \E e \in login_states : e.client = c
    \/ \E e \in user_state : temp_clients[e.uid] = c
\* a suspended handler holds client c
HeldSession(c) == \E t \in Tasks : InFlight(t) /\ task[t].client = c
\* a handler has just returned, and it was handling a code or a password
Ended == returned.kind # "none"
CodeKinds == {"otp", "bot_otp"}
PasswordKinds == {"2fa", "bot_password"}
PhoneKinds == {"login", "bot_phone"}

\* C1: whenever no event is in flight, every open networkSession belongs to a
\* stored attempt in phase AwaitingCode or AwaitingPassword, and a handler that
\* ended by removing its user's attempt has disconnected the attempt's
\* networkSession exactly once.
DisconnectContract ==
    AllIdle =>
        /\ \A c \in ClientIds : clients[c].conn => AwaitedSession(c)
        /\ (Ended /\ returned.kind \in CodeKinds \cup PasswordKinds
              /\ returned.client # NoClient /\ ~HasEntry(returned.uid))
           => clients[returned.client].disc = 1


\* the outcomes of a handler whose sign-in succeeded and whose finalization failed
ExportFailures == {"Failed to get session string", "raised by export_session_string"}
WriteFailures == {"WriteError", "raised by insert_one"}

\* C2: a handler whose finalization failed (no credential exported, or the
\* durable write failed) ends with the user's attempt removed, its
\* networkSession disconnected and no StoredCredential written.
FinalizationFailureCleansUp ==
    (Ended /\ returned.msg \in ExportFailures \cup WriteFailures) =>
        /\ ~HasEntry(returned.uid)
        /\ ~clients[returned.client].conn
        /\ returned.wrote = 0

\* C3: no open networkSession is left without a stored attempt that refers to
\* it (a suspended handler may still hold the one it is working on): a new
\* attempt replaces an old one only after the old networkSession is disconnected.
NoOrphanSession ==
    \A c \in ClientIds : clients[c].conn => StoredSession(c) \/ HeldSession(c)

\* C4: a code handler whose sign-in succeeded without a second factor, whose
\* export gave a credential and whose insert returned, has written exactly one
\* StoredCredential (no second factor, no secret), has removed the user's
\* attempt and has disconnected the networkSession exactly once.
CodeSuccessFinalizesOnce ==
    (Ended /\ returned.kind \in CodeKinds /\ returned.ok) =>
        /\ returned.wrote = 1
        /\ \E d \in BagToSet(accounts) :
              /\ d.by = returned.uid /\ d.session = returned.client
              /\ ~d.has_2fa /\ d.secret = NoSecret
              /\ CopiesIn(d, accounts) = 1
        /\ ~HasEntry(returned.uid)
        /\ temp_clients[returned.uid] = NoClient
        /\ ~clients[returned.client].conn
        /\ clients[returned.client].disc = 1
CodeSuccessReached ==
    Ended /\ returned.kind = "otp" /\ returned.ok /\ BagCardinality(accounts) = 1


\* a phone handler has just ended because send_code was rate limited
FloodTexts == {"FloodWait: Please wait 30 seconds", "Flood wait: wait 30 seconds"}
RateLimitedEnd == Ended /\ returned.kind \in PhoneKinds /\ returned.msg \in FloodTexts

\* C5 as stated: after a rate-limited PhoneSubmitted the user has no attempt in
\* the store and the connection opened for the attempt is disconnected.
RateLimitedLeavesNoEntry ==
    RateLimitedEnd => ~HasEntry(returned.uid) /\ ~clients[returned.client].conn

\* C5 as amended: the handler of a rate-limited PhoneSubmitted disconnects the
\* connection it opened, exactly once, and stores it nowhere; it does not
\* remove the user's attempt but leaves the store as it was.
RateLimitedPost ==
    /\ ~clients[returned.client].conn
    /\ clients[returned.client].disc = 1
    /\ ~StoredSession(returned.client)
    /\ HasEntry(returned.uid)
RateLimitedKeepsEntry ==
    [][RateLimitedEnd' =>
          /\ RateLimitedPost'
          /\ UNCHANGED <<login_states, user_state, temp_clients>>]_vars
RateLimitedReached == RateLimitedEnd /\ HasEntry(returned.uid)

\* C6: no two handlers are in flight for the same user, so that no
\* networkSession is disconnected twice and no attempt is stored twice.
EventsSerializedPerUser ==
    /\ \A t1, t2 \in Tasks :
          (t1 # t2 /\ InFlight(t1) /\ InFlight(t2)) => task[t1].uid # task[t2].uid
    /\ \A c \in ClientIds : clients[c].disc <= 1
    /\ \A d \in BagToSet(accounts) : CopiesIn(d, accounts) = 1

\* C7: the store never holds two attempts of one user.
AtMostOneAttemptPerUser ==
    \A u \in Users :
        /\ Cardinality({e \in login_states : e.uid = u}) <= 1
        /\ Cardinality({e \in user_state : e.uid = u}) <= 1
ConcurrentSubmissionsReached ==
    \E t1, t2 \in Tasks :
        /\ t1 # t2 /\ InFlight(t1) /\ InFlight(t2)
        /\ task[t1].uid = task[t2].uid
        /\ HasEntry(task[t1].uid)

\* C8: every StoredCredential carries a session credential.
StoredCredentialValid ==
    \A d \in BagToSet(accounts) : d.session # NoSession
FailedExportBesideCredential ==
    /\ Ended /\ returned.msg \in ExportFailures
    /\ accounts # EmptyBag

\* C9: a code handler for a user for whom no phone number was ever submitted
\* answers "Session expired", and writes nothing.
CodeBeforePhoneIsSessionExpired ==
    (Ended /\ returned.kind \in CodeKinds /\ returned.uid \notin phoned) =>
        /\ ~returned.ok
        /\ returned.msg = "Session expired"
        /\ returned.wrote = 0

\* C10: a password handler that finds no attempt of the user answers
\* "Session expired".
PasswordWithoutEntryIsSessionExpired ==
    [][(Ended' /\ returned'.kind \in PasswordKinds
          /\ returned'.client = NoClient /\ ~HasEntry(returned'.uid))
       => returned'.msg = "Session expired"]_vars

\* a code handler has just ended because the network refused the code
InvalidCodeEnd ==
    Ended /\ returned.kind \in CodeKinds /\ returned.msg = "PhoneCodeInvalid"

\* C11: a code handler whose code was refused ends in failure with no
\* StoredCredential written, the user's attempt removed (so that the next
\* CodeSubmitted finds none) and the networkSession disconnected.
InvalidCodeRemovesAttempt ==
    InvalidCodeEnd =>
        /\ ~returned.ok
        /\ returned.wrote = 0
        /\ ~HasEntry(returned.uid)
        /\ ~clients[returned.client].conn

\* the user's attempt as the running program stores it: step, phoneNumber,
\* codeRequestToken and networkSession (ls, us, tc: login_states, user_state,
\* temp_clients, in this state or the next)
NoAttempt == [step |-> "none", phone |-> NoPhone, hash |-> 0, client |-> NoClient]
Attempt(ls, us, tc, u) ==
    IF Has(ls, u)
    THEN LET e == Get(ls, u)
         IN  [step |-> e.step, phone |-> e.phone, hash |-> e.hash, client |-> e.client]
    ELSE IF Has(us, u)
    THEN LET e == Get(us, u)
         IN  [step |-> e.step, phone |-> e.phone, hash |-> e.hash, client |-> tc[u]]
    ELSE NoAttempt
AttemptNow(u) == Attempt(login_states, user_state, temp_clients, u)
AwaitingCodeSteps == {"waiting_otp", "otp"}
AwaitingPasswordSteps == {"waiting_password", "password"}

\* a code handler has just ended by asking for the second factor
SecondFactorTexts == {"password_required", "Send 2-step password"}
SecondFactorEnd ==
    Ended /\ returned.kind \in CodeKinds /\ returned.msg \in SecondFactorTexts

\* C12: the step in which a code handler ends by asking for the second factor
\* leaves the user's attempt in phase AwaitingPassword with the phoneNumber,
\* the codeRequestToken and the networkSession it had, leaves that session
\* open without a disconnect, and writes no StoredCredential.
SecondFactorKeepsAttempt ==
    [][SecondFactorEnd' =>
          LET u == returned'.uid
              before == AttemptNow(u)
              after == Attempt(login_states', user_state', temp_clients', u)
          IN  /\ ~returned'.ok
              /\ after.step \in AwaitingPasswordSteps
              /\ after.phone = before.phone /\ after.phone \in Phones
              /\ after.hash = before.hash
              /\ after.client = before.client /\ after.client = returned'.client
              /\ clients'[after.client].conn
              /\ clients'[after.client].disc = clients[after.client].disc
              /\ returned'.wrote = 0
              /\ accounts' = accounts]_vars
SecondFactorAsked ==
    /\ SecondFactorEnd
    /\ AttemptNow(returned.uid).step \in AwaitingPasswordSteps
    /\ clients[returned.client].conn

\* a password handler has just ended in success
PasswordSuccessEnd == Ended /\ returned.kind \in PasswordKinds /\ returned.ok

\* C13: the step in which a password handler ends in success leaves exactly
\* one StoredCredential written by it, with hasSecondFactor = true, the
\* phoneNumber of the attempt and the secret the handler was given, and leaves
\* the attempt removed and its networkSession disconnected.
PasswordSuccessStoresSecret ==
    [][PasswordSuccessEnd' =>
          LET u == returned'.uid
              before == AttemptNow(u)
          IN  /\ returned'.wrote = 1
              /\ \E d \in BagToSet(accounts') :
                    /\ d.by = u /\ d.session = returned'.client
                    /\ d.has_2fa
                    /\ d.phone = before.phone
                    /\ d.secret = returned'.secret /\ d.secret \in Secrets
                    /\ CopiesIn(d, accounts') = 1
              /\ Attempt(login_states', user_state', temp_clients', u) = NoAttempt
              /\ ~clients'[returned'.client].conn]_vars

\* what a step that abandons the attempt of user u does: the attempt is
\* removed and its networkSession disconnected; no handler is left suspended
\* and no StoredCredential is written
AbandonEffect(u) ==
    /\ Attempt(login_states', user_state', temp_clients', u) = NoAttempt
    /\ ~clients'[AttemptNow(u).client].conn
    /\ \A t \in Tasks : task'[t].pc = "idle"
    /\ accounts' = accounts

\* C14: whenever a user's attempt waits for a code and no event is in flight,
\* the program has a step that abandons it.
AbandonExposed ==
    \A u \in Users :
        (AllIdle /\ AttemptNow(u).step \in AwaitingCodeSteps)
            => ENABLED (NextSeq /\ AbandonEffect(u))

\* a password handler has just ended because the network refused the password
WrongSecondFactorEnd ==
    Ended /\ returned.kind \in PasswordKinds /\ returned.msg = "PasswordHashInvalid"

\* C15: the step in which a password handler of an attempt in phase
\* AwaitingPassword ends on a refused password either removes the attempt and disconnects its networkSession, or records the
\* failed try in the store (a store left exactly as it was counts nothing, and
\* the same wrong password can then be submitted again without bound).
WrongSecondFactorBounded ==
    [][(WrongSecondFactorEnd'
          /\ AttemptNow(returned'.uid).step \in AwaitingPasswordSteps) =>
          \/ /\ Attempt(login_states', user_state', temp_clients', returned'.uid)
                    = NoAttempt
             /\ ~clients'[returned'.client].conn
          \/ <<login_states, user_state, temp_clients>>'
                 # <<login_states, user_state, temp_clients>>]_vars

\* handler t is suspended in the network's sign-in with a code / with a password
InSubmitCode(t) == task[t].pc \in {"sign_in", "bot_sign_in"}
InSubmitSecondFactor(t) == task[t].pc \in {"check_password", "bot_check_password"}

\* C20: a handler is in submitCode only while its user's attempt is in phase
\* AwaitingCode, and in submitSecondFactor only while the attempt is in phase
\* AwaitingPassword.
SignInGatedByPhase ==
    \A t \in Tasks :
        /\ InSubmitCode(t) => AttemptNow(task[t].uid).step \in AwaitingCodeSteps
        /\ InSubmitSecondFactor(t)
              => AttemptNow(task[t].uid).step \in AwaitingPasswordSteps

\* the step handles an event of user u: a handler is entered for u, or a
\* suspended handler of u resumes
EventOf(u) ==
    \/ LoginBegin(u)
    \/ BotAdd(u)
    \/ \E t \in Tasks :
          \/ \E p \in Phones : LoginFlowStart(t, u, p)
          \/ VerifyOtpStart(t, u)
          \/ \E x \in Secrets : Verify2faStart(t, u, x)
          \/ BotTextIgnored(t, u)
          \/ \E x \in PhoneTexts : BotPhoneStart(t, u, x)
          \/ BotOtpStart(t, u)
          \/ \E x \in SecretTexts : BotPasswordStart(t, u, x)
    \/ \E t \in Tasks :
          /\ task[t].uid = u
          /\ \/ LoginFlowSend(t) \/ VerifyOtpSignIn(t) \/ VerifyOtpFailDisconnect(t)
             \/ Verify2faSignIn(t) \/ Finalize(t) \/ FinalDisconnect(t)
             \/ BotConnect(t) \/ BotSendCode(t) \/ BotSignIn(t)
             \/ BotCheckPassword(t) \/ BotSaveAccount(t) \/ BotDisconnect(t)
             \/ BotCleanup(t)
\* the networkSessions of user v: the one v's attempt stores and the ones v's
\* suspended handlers hold
SessionsOf(v) ==
    ({AttemptNow(v).client}
        \cup {task[t].client : t \in {x \in Tasks : InFlight(x) /\ task[x].uid = v}})
    \ {NoClient}
\* no networkSession is referred to by the attempts of two users
SessionOfOneUser ==
    \A u, v \in Users :
        (u # v /\ AttemptNow(u).client # NoClient)
            => AttemptNow(u).client # AttemptNow(v).client
\* the step leaves the attempt of user v as it was and does nothing to v's
\* networkSessions
Untouched(v) ==
    /\ Attempt(login_states', user_state', temp_clients', v) = AttemptNow(v)
    /\ \A c \in SessionsOf(v) : clients'[c] = clients[c]
\* a step that handles an event of u leaves every other user untouched
OtherUsersUntouched ==
    \A v \in Users : Untouched(v) \/ \A u \in Users \ {v} : ~EventOf(u)

\* C19: per-user isolation, with handlers of different users (and of the same
\* user) running concurrently: a networkSession belongs to the attempt of at
\* most one user, and handling an event of one user changes no other user's
\* attempt and disconnects no other user's networkSession.
PerUserIsolation == []SessionOfOneUser /\ [][OtherUsersUntouched]_vars
\* a handler of one user has just disconnected its networkSession and removed
\* the attempt while another user's attempt waits for a code on an open one
IsolationExercised ==
    /\ Ended /\ returned.client # NoClient
    /\ ~clients[returned.client].conn
    /\ ~HasEntry(returned.uid)
    /\ \E v \in Users \ {returned.uid} :
          /\ AttemptNow(v).step \in AwaitingCodeSteps
          /\ clients[AttemptNow(v).client].conn

\* call k holds the event loop it is about to drive, or drives it
Drives(k) == call[k].pc \in {"run_until_complete", "driving"}

\* C16: no two run_async calls that execute at the same time drive, or are
\* about to drive, the same event loop.
NoSharedLoop ==
    \A k1, k2 \in Calls :
        (k1 # k2 /\ Drives(k1) /\ Drives(k2)) => call[k1].loop # call[k2].loop

\* C17: an event loop that _run_in_thread created for a call is closed once
\* the call has returned or raised.
ScopedLoopTornDown ==
    \A l \in LoopIds :
        (loops[l].kind = "scoped" /\ loops[l].done) => loops[l].state = "closed"

\* C18: a safe_disconnect call never raises; on a client that is not connected
\* (never connected, already disconnected, or None) it calls nothing and
\* changes nothing; on a connected client that has a session it calls
\* session.stop() and then client.disconnect(), also when session.stop()
\* raised; and the client is disconnected whenever client.disconnect() returns.
SafeDisconnectContract ==
    teardown.kind = "safe_disconnect" =>
        /\ ~teardown.raised
        /\ (teardown.client = NoHandle \/ ~teardown.before.conn) =>
               /\ teardown.ops = <<>>
               /\ teardown.after = teardown.before
        /\ (teardown.client # NoHandle /\ teardown.before.conn) =>
               /\ teardown.ops =
                      IF HasSession(teardown.before)
                      THEN <<"session.stop", "client.disconnect">>
                      ELSE <<"client.disconnect">>
               /\ ~teardown.disconnect_fails => ~teardown.after.conn
        /\ teardown.client # NoHandle => handle[teardown.client] = teardown.after
\* session.stop() raised in a safe_disconnect that still disconnected the
\* client, and the other client had been torn down before
StopFailureSwallowed ==
    /\ teardown.kind = "safe_disconnect"
    /\ teardown.client # NoHandle
    /\ teardown.before.conn /\ teardown.stop_fails
    /\ ~teardown.after.conn
    /\ \E c \in HandleIds \ {teardown.client} : handle[c].session = "stopped"

====
